---- MODULE Spec2Model ----
(***************************************************************************)
(* Model of elodie.media.media.Media: the metadata accessors and mutators  *)
(* of one media record, the exiftool session each of them opens, and the   *)
(* record's exiftool_attributes cache field.                               *)
(*                                                                         *)
(* One action per public method.  Every method is a pure operator from the *)
(* record (self) and the answers of the external collaborators (tool) to   *)
(* a result record; the action stores the result in the variables.         *)
(***************************************************************************)
EXTENDS Integers, Sequences, FiniteSets, TLC

(* ------------------------------ bounds --------------------------------- *)

\* number of distinct album names given to set_album
NumAlbums == 2
\* number of distinct titles given to set_title
NumTitles == 1
\* number of distinct datetimes given to set_date_taken
NumTimes == 1

(* ------------------------- Python values ------------------------------- *)

\* Every Python value the methods handle is a record of one shape, so that
\* any two of them can be compared.
None == [t |-> "None", s |-> "", n |-> 0]
False == [t |-> "bool", s |-> "False", n |-> 0]
True == [t |-> "bool", s |-> "True", n |-> 1]
Str(x) == [t |-> "str", s |-> x, n |-> 0]
Num(x) == [t |-> "num", s |-> "", n |-> x]
\* the marker of a key that a dict does not hold
NoKey == [t |-> "nokey", s |-> "", n |-> 0]

(* --------------------- Media.__init__ : the keys ----------------------- *)

date_taken_keys == <<"EXIF:DateTimeOriginal", "EXIF:DateTime", "EXIF:DateTimeDigitized">>
album_key == "XMP:Album"
title_key == "XMP:Title"
latitude_keys == <<"EXIF:GPSLatitude">>
longitude_keys == <<"EXIF:GPSLongitude">>
latitude_ref_key == "EXIF:GPSLatitudeRef"
longitude_ref_key == "EXIF:GPSLongitudeRef"
set_gps_ref == TRUE

Range(q) == {q[i] : i \in DOMAIN q}

Keys ==
  Range(date_taken_keys) \cup {album_key, title_key}
    \cup Range(latitude_keys) \cup Range(longitude_keys)
    \cup {latitude_ref_key, longitude_ref_key}

\* A dict of tags is a total function on Keys; NoKey marks the keys it lacks.
EmptyDict == [k \in Keys |-> NoKey]
HasKey(d, k) == d[k] # NoKey
IsEmptyDict(d) == \A k \in Keys : ~HasKey(d, k)
\* dict.update: the keys of new replace those of old
Update(old, new) == [k \in Keys |-> IF HasKey(new, k) THEN new[k] ELSE old[k]]
\* a dict with one entry, {k: v}
Single(k, v) == [x \in Keys |-> IF x = k THEN v ELSE NoKey]

\* What get_exiftool_attributes hands back and what the cache field holds:
\* None, False or a dict.
AttrNone == [t |-> "None", d |-> EmptyDict]
AttrFalse == [t |-> "False", d |-> EmptyDict]
AttrDict(m) == [t |-> "dict", d |-> m]

(* ----------------------------- inputs ---------------------------------- *)

AlbumNames == <<"Trip", "Home", "Work", "Misc">>
Albums == {Str(AlbumNames[i]) : i \in 1..NumAlbums}
TitleNames == <<"x", "Sunset", "Harbour">>
Titles == {Str(TitleNames[i]) : i \in 1..NumTitles}
\* the coordinates given to set_location: one of each sign, and zero
Coords == {0 - 1, 0, 1}
DateTimes ==
  << [Y |-> 2023, M |-> 5, D |-> 1, h |-> 10, mi |-> 30, sec |-> 0],
     [Y |-> 1999, M |-> 12, D |-> 31, h |-> 23, mi |-> 59, sec |-> 59],
     [Y |-> 2016, M |-> 2, D |-> 29, h |-> 0, mi |-> 0, sec |-> 7] >>
\* a datetime argument is named by its place in DateTimes
DateTime(i) == [t |-> "datetime", s |-> "", n |-> i]
\* the absent datetime (time is None)
NoTime == [Y |-> 0, M |-> 0, D |-> 0, h |-> 0, mi |-> 0, sec |-> 0]

\* strftime with the format '%Y-%m-%d %H:%M:%S'
strftime_dashes(time) ==
  LET D2(x) == <<"0", "1", "2", "3", "4", "5", "6", "7", "8", "9">>[((x \div 10) % 10) + 1]
                 \o <<"0", "1", "2", "3", "4", "5", "6", "7", "8", "9">>[(x % 10) + 1]
  IN D2(time.Y \div 100) \o D2(time.Y % 100) \o "-" \o D2(time.M) \o "-" \o D2(time.D)
       \o " " \o D2(time.h) \o ":" \o D2(time.mi) \o ":" \o D2(time.sec)

\* datetime.strftime('%Y:%m:%d %H:%M:%S')
Digit(d) == <<"0", "1", "2", "3", "4", "5", "6", "7", "8", "9">>[d + 1]
Pad2(x) == Digit((x \div 10) % 10) \o Digit(x % 10)
Pad4(x) == Pad2(x \div 100) \o Pad2(x % 100)
strftime(time) ==
  Pad4(time.Y) \o ":" \o Pad2(time.M) \o ":" \o Pad2(time.D) \o " "
    \o Pad2(time.h) \o ":" \o Pad2(time.mi) \o ":" \o Pad2(time.sec)

(* ------------------- the external collaborators ------------------------ *)

\* What the collaborators answer during one method call:
\*   valid  - Base.is_valid() (held in the variable valid)
\*   avail  - whether get_exiftool() finds the executable
\*   meta   - the dict et.get_metadata(source) returns
\*   status - the string et.set_tags(tags, source) returns
\*   file   - the tags the tool holds for the file before the call
NoStatus == ""
OkStatus == "1 image files updated"

is_valid(self) == self.valid
get_exiftool(tool) == tool.avail

\* with ExifTool(addedargs=...) as et: <requests>
\* __enter__ starts the tool process and __exit__ ends it on every way out
\* of the block, a return inside the block included.
with_ExifTool(requests) == <<"open">> \o requests \o <<"close">>

ExifTool_get_metadata(tool) == tool.meta

\* The EXIF GPS latitude and longitude tags hold absolute values (the comment
\* in set_location; the hemisphere is in the reference tag): the tool stores
\* the magnitude of a number written to them.
Abs(x) == IF x < 0 THEN 0 - x ELSE x
Stored(tags) ==
  [k \in Keys |->
     IF k \in Range(latitude_keys) \cup Range(longitude_keys) /\ tags[k].t = "num"
     THEN Num(Abs(tags[k].n))
     ELSE tags[k]]

\* An empty status is the tool's refusal and leaves the file as it was;
\* any other status follows the tags having been written.
ExifTool_set_tags(tool, tags) ==
  [status |-> tool.status,
   file |-> IF tool.status # NoStatus
            THEN Update(tool.file, Stored(tags))
            ELSE tool.file]

(* ------------------------- Media methods ------------------------------- *)

\* The outcome of one method call: the value returned (or the exception
\* raised), the requests sent to the tool, the number of calls of
\* get_exiftool_attributes, how the Gateway read ended, the tags of the
\* set_tags request and the status the tool gave to it, and the cache field
\* and the file's tags after the call.
Outcome(ret, exc, events, reads, gw, tags, status, cache, file) ==
  [ret |-> ret, exc |-> exc, events |-> events, reads |-> reads, gw |-> gw,
   tags |-> tags, status |-> status, cache |-> cache, file |-> file]

NoExc == "none"

\* get_exiftool_attributes with an explicit open and close in place of the
\* with block: the return on an empty response skips the close
get_exiftool_attributes_leak(self, tool) ==
  IF ~get_exiftool(tool)
  THEN [val |-> AttrFalse, events |-> <<>>, gw |-> "ToolUnavailable"]
  ELSE LET metadata == ExifTool_get_metadata(tool) IN
       IF IsEmptyDict(metadata)
       THEN [val |-> AttrFalse,
             events |-> <<"open", "get_metadata">>,
             gw |-> "NoMetadata"]
       ELSE [val |-> AttrDict(metadata),
             events |-> with_ExifTool(<<"get_metadata">>),
             gw |-> "ok"]

\* get_exiftool_attributes looking for the executable only after the session
\* is open
get_exiftool_attributes_late_check(self, tool) ==
  IF ~get_exiftool(tool)
  THEN [val |-> AttrFalse, events |-> with_ExifTool(<<>>), gw |-> "ToolUnavailable"]
  ELSE LET metadata == ExifTool_get_metadata(tool) IN
       IF IsEmptyDict(metadata)
       THEN [val |-> AttrFalse,
             events |-> with_ExifTool(<<"get_metadata">>),
             gw |-> "NoMetadata"]
       ELSE [val |-> AttrDict(metadata),
             events |-> with_ExifTool(<<"get_metadata">>),
             gw |-> "ok"]

get_exiftool_attributes(self, tool) ==
  IF ~get_exiftool(tool)
  THEN [val |-> AttrFalse, events |-> <<>>, gw |-> "ToolUnavailable"]
  ELSE LET metadata == ExifTool_get_metadata(tool) IN
       IF IsEmptyDict(metadata)
       THEN [val |-> AttrFalse,
             events |-> with_ExifTool(<<"get_metadata">>),
             gw |-> "NoMetadata"]
       ELSE [val |-> AttrDict(metadata),
             events |-> with_ExifTool(<<"get_metadata">>),
             gw |-> "ok"]

\* key not in exiftool_attributes, then exiftool_attributes[key]: the lookup
\* the two string accessors share.  The membership test of a bool raises
\* TypeError.
Lookup(self, tool, key, a) ==
  IF a.val.t = "None"
  THEN Outcome(None, NoExc, a.events, 1, a.gw, EmptyDict, NoStatus,
               self.exiftool_attributes, tool.file)
  ELSE IF a.val.t = "False"
  THEN Outcome(None, "TypeError", a.events, 1, a.gw, EmptyDict, NoStatus,
               self.exiftool_attributes, tool.file)
  ELSE IF ~HasKey(a.val.d, key)
  THEN Outcome(None, NoExc, a.events, 1, a.gw, EmptyDict, NoStatus,
               self.exiftool_attributes, tool.file)
  ELSE Outcome(a.val.d[key], NoExc, a.events, 1, a.gw, EmptyDict, NoStatus,
               self.exiftool_attributes, tool.file)

\* the return of a method that ends before any call of the tool
Short(self, tool, ret) ==
  Outcome(ret, NoExc, <<>>, 0, "none", EmptyDict, NoStatus,
          self.exiftool_attributes, tool.file)

\* get_album copied from get_title with the key left as it was
get_album_title_key(self, tool) ==
  IF ~is_valid(self)
  THEN Short(self, tool, None)
  ELSE Lookup(self, tool, title_key, get_exiftool_attributes(self, tool))

get_album(self, tool) ==
  IF ~is_valid(self)
  THEN Short(self, tool, None)
  ELSE Lookup(self, tool, album_key, get_exiftool_attributes(self, tool))

\* get_title calling get_exiftool_attributes once for the test and once more
\* for the value
get_title_twice(self, tool) ==
  IF ~is_valid(self)
  THEN Short(self, tool, None)
  ELSE LET a == get_exiftool_attributes(self, tool)
           o == Lookup(self, tool, title_key, a)
       IN IF a.val.t = "dict" /\ HasKey(a.val.d, title_key)
          THEN [o EXCEPT !.reads = 2, !.events = a.events \o a.events]
          ELSE o

get_title(self, tool) ==
  IF ~is_valid(self)
  THEN Short(self, tool, None)
  ELSE Lookup(self, tool, title_key, get_exiftool_attributes(self, tool))

\* the loop of get_coordinate without the reference test: the raw value as it is
RECURSIVE coordinate_loop_no_ref(_, _, _)
coordinate_loop_no_ref(exif, type, i) ==
  LET keys == latitude_keys \o longitude_keys IN
  IF i > Len(keys)
  THEN None
  ELSE LET key == keys[i] IN
       IF type = "latitude" /\ key \in Range(latitude_keys) /\ HasKey(exif, key)
       THEN exif[key]
       ELSE IF type = "longitude" /\ key \in Range(longitude_keys) /\ HasKey(exif, key)
       THEN exif[key]
       ELSE coordinate_loop_no_ref(exif, type, i + 1)

\* the loop of get_coordinate with one reference test for both axes: 'S' or
\* 'W' in either reference tag negates
RECURSIVE coordinate_loop_any_ref(_, _, _)
coordinate_loop_any_ref(exif, type, i) ==
  LET keys == latitude_keys \o longitude_keys
      direction_multiplier ==
        IF \/ HasKey(exif, latitude_ref_key) /\ exif[latitude_ref_key] = Str("S")
           \/ HasKey(exif, longitude_ref_key) /\ exif[longitude_ref_key] = Str("W")
        THEN 0 - 1 ELSE 1
  IN
  IF i > Len(keys)
  THEN None
  ELSE LET key == keys[i] IN
       IF type = "latitude" /\ key \in Range(latitude_keys) /\ HasKey(exif, key)
       THEN Num(exif[key].n * direction_multiplier)
       ELSE IF type = "longitude" /\ key \in Range(longitude_keys) /\ HasKey(exif, key)
       THEN Num(exif[key].n * direction_multiplier)
       ELSE coordinate_loop_any_ref(exif, type, i + 1)

\* for key in self.latitude_keys + self.longitude_keys, from position i
RECURSIVE coordinate_loop(_, _, _)
coordinate_loop(exif, type, i) ==
  LET keys == latitude_keys \o longitude_keys IN
  IF i > Len(keys)
  THEN None
  ELSE LET key == keys[i] IN
       IF type = "latitude" /\ key \in Range(latitude_keys) /\ HasKey(exif, key)
       THEN LET direction_multiplier ==
                  IF HasKey(exif, latitude_ref_key) /\ exif[latitude_ref_key] = Str("S")
                  THEN 0 - 1 ELSE 1
            IN Num(exif[key].n * direction_multiplier)
       ELSE IF type = "longitude" /\ key \in Range(longitude_keys) /\ HasKey(exif, key)
       THEN LET direction_multiplier ==
                  IF HasKey(exif, longitude_ref_key) /\ exif[longitude_ref_key] = Str("W")
                  THEN 0 - 1 ELSE 1
            IN Num(exif[key].n * direction_multiplier)
       ELSE coordinate_loop(exif, type, i + 1)

\* get_coordinate writing the value it resolved back to the file, as
\* set_location would
get_coordinate_write_back(self, type, tool) ==
  LET exif == get_exiftool_attributes(self, tool) IN
  IF exif.val.t # "dict"
  THEN Outcome(None, NoExc, exif.events, 1, exif.gw, EmptyDict, NoStatus,
               self.exiftool_attributes, tool.file)
  ELSE LET v == coordinate_loop(exif.val.d, type, 1)
           k == IF type = "latitude" THEN latitude_keys[1] ELSE longitude_keys[1]
       IN IF v = None
          THEN Outcome(v, NoExc, exif.events, 1, exif.gw, EmptyDict, NoStatus,
                       self.exiftool_attributes, tool.file)
          ELSE Outcome(v, NoExc, exif.events \o with_ExifTool(<<"set_tags">>), 1,
                       exif.gw, Single(k, v), OkStatus, self.exiftool_attributes,
                       Update(tool.file, Single(k, v)))

get_coordinate(self, type, tool) ==
  LET exif == get_exiftool_attributes(self, tool) IN
  IF exif.val.t # "dict"
  THEN Outcome(None, NoExc, exif.events, 1, exif.gw, EmptyDict, NoStatus,
               self.exiftool_attributes, tool.file)
  ELSE Outcome(coordinate_loop(exif.val.d, type, 1), NoExc, exif.events, 1,
               exif.gw, EmptyDict, NoStatus, self.exiftool_attributes, tool.file)

\* reset_cache assigning an empty dict in place of None
reset_cache_empty_dict(self) == AttrDict(EmptyDict)

\* self.exiftool_attributes = None; super(Media, self).reset_cache()
reset_cache(self) == AttrNone

\* __set_tags without its validity check
__set_tags_unguarded(self, tags, tool) ==
  LET w == ExifTool_set_tags(tool, tags) IN
  [ret |-> IF w.status # NoStatus THEN True ELSE False,
   events |-> with_ExifTool(<<"set_tags">>),
   tags |-> tags,
   status |-> w.status,
   file |-> w.file]

\* __set_tags returning the status string in place of status != ''
__set_tags_raw_status(self, tags, tool) ==
  IF ~is_valid(self)
  THEN [ret |-> None, events |-> <<>>, tags |-> EmptyDict, status |-> NoStatus,
        file |-> tool.file]
  ELSE LET w == ExifTool_set_tags(tool, tags) IN
       [ret |-> Str(w.status),
        events |-> with_ExifTool(<<"set_tags">>),
        tags |-> tags,
        status |-> w.status,
        file |-> w.file]

\* the value returned, the requests sent, the tags of the set_tags request,
\* the tool's status and the file's tags afterwards
__set_tags(self, tags, tool) ==
  IF ~is_valid(self)
  THEN [ret |-> None, events |-> <<>>, tags |-> EmptyDict, status |-> NoStatus,
        file |-> tool.file]
  ELSE LET w == ExifTool_set_tags(tool, tags) IN
       [ret |-> IF w.status # NoStatus THEN True ELSE False,
        events |-> with_ExifTool(<<"set_tags">>),
        tags |-> tags,
        status |-> w.status,
        file |-> w.file]

\* status = self.__set_tags(tags); self.reset_cache(); return status
write_and_reset(self, tags, tool) ==
  LET w == __set_tags(self, tags, tool) IN
  Outcome(w.ret, NoExc, w.events, 0, "none", w.tags, w.status, reset_cache(self),
          w.file)

set_album(self, album, tool) ==
  IF ~is_valid(self)
  THEN Short(self, tool, None)
  ELSE write_and_reset(self, Single(album_key, album), tool)

date_taken_tags(time) ==
  [k \in Keys |-> IF k \in Range(date_taken_keys) THEN Str(strftime(time)) ELSE NoKey]

\* set_date_taken returning None, as the other setters do, when it has
\* nothing to write
set_date_taken_none(self, time, tool) ==
  IF time = NoTime
  THEN Short(self, tool, None)
  ELSE write_and_reset(self, date_taken_tags(time), tool)

set_date_taken(self, time, tool) ==
  IF time = NoTime
  THEN Short(self, tool, False)
  ELSE write_and_reset(self, date_taken_tags(time), tool)

\* the tags of set_location with <= in place of < in the two reference tests
location_tags_le_zero(latitude, longitude) ==
  [k \in Keys |->
     IF k = latitude_keys[1] THEN Num(latitude)
     ELSE IF k = longitude_keys[1] THEN Num(longitude)
     ELSE IF set_gps_ref /\ k = latitude_ref_key /\ latitude <= 0 THEN Str("S")
     ELSE IF set_gps_ref /\ k = longitude_ref_key /\ longitude <= 0 THEN Str("W")
     ELSE NoKey]

location_tags(latitude, longitude) ==
  [k \in Keys |->
     IF k = latitude_keys[1] THEN Num(latitude)
     ELSE IF k = longitude_keys[1] THEN Num(longitude)
     ELSE IF set_gps_ref /\ k = latitude_ref_key /\ latitude < 0 THEN Str("S")
     ELSE IF set_gps_ref /\ k = longitude_ref_key /\ longitude < 0 THEN Str("W")
     ELSE NoKey]

set_location(self, latitude, longitude, tool) ==
  IF ~is_valid(self)
  THEN Short(self, tool, None)
  ELSE write_and_reset(self, location_tags(latitude, longitude), tool)

set_title(self, title, tool) ==
  IF ~is_valid(self)
  THEN Short(self, tool, None)
  ELSE IF title = None
  THEN Short(self, tool, None)
  ELSE write_and_reset(self, Single(title_key, title), tool)

(* ------------------------------ state ---------------------------------- *)

VARIABLES
  valid,                \* what Base.is_valid() answers for this record
  exiftool_attributes,  \* the cache field that reset_cache clears
  file,                 \* the tags the tool holds for the source file
  open_sessions,        \* tool sessions opened and not yet closed
  dirty,                \* a set_tags request was sent after the last get_metadata request
  op, args,             \* the last method called and its arguments
  ret, exc,             \* what it returned, or the exception it raised
  events,               \* the requests it sent to the tool, in order
  tags,                 \* the tags of its set_tags request
  reads,                \* its calls of get_exiftool_attributes
  gw,                   \* how its Gateway read ended
  status,               \* the status the tool gave to its write
  \* several records, each call taken one tool request at a time
  recs,                 \* per record: is_valid(), the cache field, its file's tags
  calls,                \* per record: the call in progress, if any
  live                  \* the tool sessions that are open

vars ==
  <<valid, exiftool_attributes, file, open_sessions, dirty, op, args, ret, exc,
    events, tags, reads, gw, status, recs, calls, live>>

self == [valid |-> valid, exiftool_attributes |-> exiftool_attributes]

\* the answers the collaborators may give to a read and to a write
ReadTools ==
  {[avail |-> a, meta |-> m, status |-> NoStatus, file |-> file] :
     a \in BOOLEAN, m \in {file, EmptyDict}}
WriteTools ==
  {[avail |-> TRUE, meta |-> file, status |-> st, file |-> file] :
     st \in {NoStatus, OkStatus}}

\* the tags a file may hold before the record first touches it
InitFiles ==
  { EmptyDict,
    Single(longitude_keys[1], Num(1)),
    [k \in Keys |->
       IF k = latitude_keys[1] THEN Num(1)
       ELSE IF k = longitude_keys[1] THEN Num(1)
       ELSE IF k = latitude_ref_key THEN Str("S")
       ELSE IF k = longitude_ref_key THEN Str("W")
       ELSE IF k = album_key THEN Str(AlbumNames[1])
       ELSE IF k = title_key THEN Str(TitleNames[1])
       ELSE NoKey],
    [k \in Keys |->
       IF k = latitude_keys[1] THEN Num(1)
       ELSE IF k = longitude_keys[1] THEN Num(1)
       ELSE IF k = latitude_ref_key THEN Str("N")
       ELSE IF k = longitude_ref_key THEN Str("E")
       ELSE NoKey] }

Count(evs, e) == Cardinality({i \in DOMAIN evs : evs[i] = e})

\* the records of the several-record specification, and a record at rest
Records == {"r1", "r2"}
\* (sess is the set of the sessions the call holds: none or one)
Idle ==
  [op |-> "idle", arg |-> None, pos |-> 0, sess |-> {},
   out |-> Outcome(None, NoExc, <<>>, 0, "none", EmptyDict, NoStatus, AttrNone,
                   EmptyDict)]

\* one record alone: there are no further records
OneRecord ==
  /\ recs = <<>>
  /\ calls = <<>>
  /\ live = {}

Init ==
  /\ OneRecord
  /\ valid \in BOOLEAN
  /\ exiftool_attributes = AttrNone
  /\ file \in InitFiles
  /\ open_sessions = 0
  /\ dirty = FALSE
  /\ op = "init"
  /\ args = <<None, None>>
  /\ ret = None
  /\ exc = NoExc
  /\ events = <<>>
  /\ tags = EmptyDict
  /\ reads = 0
  /\ gw = "none"
  /\ status = NoStatus

\* the call of method name with arguments a and b ended as out
Call(name, a, b, out) ==
  /\ op' = name
  /\ args' = <<a, b>>
  /\ ret' = out.ret
  /\ exc' = out.exc
  /\ events' = out.events
  /\ tags' = out.tags
  /\ reads' = out.reads
  /\ gw' = out.gw
  /\ status' = out.status
  /\ exiftool_attributes' = out.cache
  /\ file' = out.file
  /\ open_sessions' = open_sessions + Count(out.events, "open") - Count(out.events, "close")
  /\ dirty' = IF Count(out.events, "set_tags") > 0 THEN TRUE
              ELSE IF Count(out.events, "get_metadata") > 0 THEN FALSE
              ELSE dirty
  /\ UNCHANGED <<valid, recs, calls, live>>

GetAlbum ==
  \E tool \in ReadTools : Call("get_album", None, None, get_album(self, tool))

GetTitle ==
  \E tool \in ReadTools : Call("get_title", None, None, get_title(self, tool))

GetCoordinate ==
  \E tool \in ReadTools, type \in {"latitude", "longitude"} :
    Call("get_coordinate", Str(type), None, get_coordinate(self, type, tool))

ResetCache ==
  Call("reset_cache", None, None,
       Outcome(None, NoExc, <<>>, 0, "none", EmptyDict, NoStatus, reset_cache(self),
               file))

SetAlbum ==
  \E tool \in WriteTools, album \in Albums :
    Call("set_album", album, None, set_album(self, album, tool))

SetDateTaken ==
  \E tool \in WriteTools, i \in 0..NumTimes :
    IF i = 0
    THEN Call("set_date_taken", None, None, set_date_taken(self, NoTime, tool))
    ELSE Call("set_date_taken", DateTime(i), None,
              set_date_taken(self, DateTimes[i], tool))

SetLocation ==
  \E tool \in WriteTools, latitude \in Coords, longitude \in Coords :
    Call("set_location", Num(latitude), Num(longitude),
         set_location(self, latitude, longitude, tool))

SetTitle ==
  \E tool \in WriteTools, title \in Titles \cup {None} :
    Call("set_title", title, None, set_title(self, title, tool))

Next ==
  \/ GetAlbum
  \/ GetTitle
  \/ GetCoordinate
  \/ ResetCache
  \/ SetAlbum
  \/ SetDateTaken
  \/ SetLocation
  \/ SetTitle

Spec == Init /\ [][Next]_vars

(* ------------------------------ claims --------------------------------- *)

ReadOps == {"get_album", "get_title", "get_coordinate"}
SetterOps == {"set_album", "set_title", "set_date_taken", "set_location"}

\* the arguments of the last call were all present (none of them None)
ArgsPresent ==
  /\ op = "set_title" => args[1] # None
  /\ op = "set_date_taken" => args[1] # None

\* the value the tags f hold for the attribute the last read accessor asked for
Held(f) ==
  IF op = "get_album" THEN (IF HasKey(f, album_key) THEN f[album_key] ELSE None)
  ELSE IF op = "get_title" THEN (IF HasKey(f, title_key) THEN f[title_key] ELSE None)
  ELSE coordinate_loop(f, args[1].s, 1)

\* the number of sessions open after the first i requests of evs
RECURSIVE Depth(_, _)
Depth(evs, i) ==
  IF i = 0 THEN 0
  ELSE Depth(evs, i - 1)
         + (IF evs[i] = "open" THEN 1 ELSE IF evs[i] = "close" THEN 0 - 1 ELSE 0)

\* C1: when the Gateway read reports ToolUnavailable, get_title() on a valid
\* record returns None and raises no exception.
C1_ToolUnavailableTitleNone ==
  (op = "get_title" /\ valid /\ gw = "ToolUnavailable")
    => (ret = None /\ exc = NoExc)

\* C2: when the tool returns no metadata for the file, get_album(), get_title()
\* and get_coordinate(axis) on a valid record all return None and none of them
\* raises.
C2_NoMetadataReadsNone ==
  (op \in ReadOps /\ valid /\ gw = "NoMetadata")
    => (ret = None /\ exc = NoExc)

\* C3: on a valid record a read accessor answers from a Gateway read issued
\* after the last write: whenever it gets a mapping, no set_tags request is
\* younger than its get_metadata request and the value it returns is the one
\* the file's tags hold now; it returns a value only from such a mapping.
C3_NoStaleRead ==
  (op \in ReadOps /\ valid)
    => /\ gw = "ok" => (~dirty /\ Count(events, "get_metadata") = 1 /\ ret = Held(file))
       /\ ret # None => gw = "ok"

\* a get_album() that answers the album a successful set_album wrote
C3_Witness ==
  /\ valid
  /\ op = "get_album"
  /\ gw = "ok"
  /\ ret = Str(AlbumNames[2])

\* C4: on an invalid record no mutator opens a tool session or sends a set_tags
\* request, and set_title returns None.
C4_InvalidNoWrite ==
  (~valid /\ op \in SetterOps)
    => /\ events = <<>>
       /\ open_sessions = 0
       /\ op = "set_title" => ret = None

\* set_date_taken with a present time on an invalid record
C4_Witness ==
  /\ ~valid
  /\ op = "set_date_taken"
  /\ args[1] = DateTime(1)
  /\ ret = None

\* C5: on an invalid record every read accessor returns None without any call
\* of the tool: no Gateway read, no session, no get_metadata request.
C5_InvalidNoRead ==
  (~valid /\ op \in ReadOps)
    => (ret = None /\ reads = 0 /\ events = <<>>)

\* C6: every session a read or a write opens is closed before the call returns:
\* no session is open between two operations, at most one is open at any time
\* within one, and every request is sent inside a session.
C6_SessionsScoped ==
  /\ open_sessions = 0
  /\ \A i \in DOMAIN events :
       /\ Depth(events, i) \in {0, 1}
       /\ events[i] \in {"get_metadata", "set_tags"} => Depth(events, i) = 1
  /\ Depth(events, Len(events)) = 0

\* a read whose session met an empty response of the tool
C6_Witness ==
  /\ op \in ReadOps
  /\ gw = "NoMetadata"
  /\ events = <<"open", "get_metadata", "close">>

\* C7: on a valid record and with present arguments each setter sends exactly
\* one set_tags request and returns True exactly when the tool's status is not
\* empty; on an empty status it returns False, not None.
C7_SetterStatus ==
  (valid /\ op \in SetterOps /\ ArgsPresent)
    => /\ Count(events, "set_tags") = 1
       /\ ret = True <=> status # NoStatus
       /\ status = NoStatus => ret = False

\* a set_location the tool answered with an empty status
C7_Witness ==
  /\ valid
  /\ op = "set_location"
  /\ status = NoStatus
  /\ ret = False

\* C8: after a setter that sent a set_tags request the cache field is None,
\* whether the tool accepted the write or not, and the setter made no Gateway
\* read.
C8_WriteClearsCache ==
  (op \in SetterOps /\ Count(events, "set_tags") > 0)
    => /\ exiftool_attributes = AttrNone
       /\ reads = 0
       /\ Count(events, "get_metadata") = 0

\* a set_album the tool rejected
C8_Witness ==
  /\ op = "set_album"
  /\ Count(events, "set_tags") = 1
  /\ status = NoStatus
  /\ exiftool_attributes = AttrNone

\* C9: on a valid record, a read accessor called right after a read accessor
\* that fetched the mapping makes no Gateway read.
C9_CacheHitNoRead ==
  [][(valid /\ op \in ReadOps /\ gw = "ok" /\ op' \in ReadOps)
       => (reads' = 0 /\ events' = <<>>)]_vars

\* C10: reset_cache leaves the cache field None and everything else as it was;
\* a second call right after the first changes nothing; and the read accessor
\* called next on a valid record makes exactly one Gateway read.
C10_ResetIdempotent ==
  [][/\ op' = "reset_cache"
          => (exiftool_attributes' = AttrNone /\ events' = <<>> /\ exc' = NoExc
                /\ UNCHANGED <<valid, file, open_sessions>>)
     /\ (op = "reset_cache" /\ op' = "reset_cache")
          => UNCHANGED <<valid, exiftool_attributes, file, open_sessions>>
     /\ (op = "reset_cache" /\ valid /\ op' \in ReadOps)
          => (reads' = 1 /\ Count(events', "get_metadata") <= 1)]_vars

\* reset_cache has been called on a valid record
C10_Witness ==
  /\ valid
  /\ op = "reset_cache"
  /\ exiftool_attributes = AttrNone

\* the axis the last get_coordinate asked for, its key, its reference key and
\* the reference value that negates it
Axis == args[1].s
AxisKey == IF Axis = "latitude" THEN latitude_keys[1] ELSE longitude_keys[1]
AxisRefKey == IF Axis = "latitude" THEN latitude_ref_key ELSE longitude_ref_key
AxisNegRef == IF Axis = "latitude" THEN Str("S") ELSE Str("W")
OtherKey == IF Axis = "latitude" THEN longitude_keys[1] ELSE latitude_keys[1]
OtherRefKey == IF Axis = "latitude" THEN longitude_ref_key ELSE latitude_ref_key
OtherNegRef == IF Axis = "latitude" THEN Str("W") ELSE Str("S")

\* the last call was a get_coordinate whose Gateway read gave the file's tags,
\* and they hold the key of the axis asked for
CoordinateRead ==
  /\ op = "get_coordinate"
  /\ gw = "ok"
  /\ HasKey(file, AxisKey)

\* C11 as stated: with the reference tag 'S' (latitude) or 'W' (longitude)
\* get_coordinate returns a strictly negative value; without the reference tag
\* or with another value in it, a non-negative value.
C11_SignFromRef ==
  CoordinateRead
    => /\ ret.t = "num"
       /\ IF file[AxisRefKey] = AxisNegRef THEN ret.n < 0 ELSE ret.n >= 0

\* C11 amended: for a raw magnitude m >= 0, with the reference tag 'S' or 'W'
\* get_coordinate returns -m, which is strictly negative exactly when m > 0 and
\* zero when m = 0; without the reference tag or with another value in it, it
\* returns m, which is non-negative.
C11_SignFromRefAmended ==
  (CoordinateRead /\ file[AxisKey].n >= 0)
    => /\ ret.t = "num"
       /\ IF file[AxisRefKey] = AxisNegRef
          THEN /\ ret.n = 0 - file[AxisKey].n
               /\ ret.n <= 0
               /\ file[AxisKey].n > 0 <=> ret.n < 0
          ELSE /\ ret.n = file[AxisKey].n
               /\ ret.n >= 0

\* a latitude read of a file with a non-zero latitude and the reference 'S'
C11_Witness ==
  /\ CoordinateRead
  /\ Axis = "latitude"
  /\ file[latitude_ref_key] = Str("S")
  /\ file[latitude_keys[1]].n > 0
  /\ ret.n < 0

\* C12: the axes are resolved independently.  From tags that hold only the
\* longitude key and no reference key, get_coordinate('latitude') returns None
\* and get_coordinate('longitude') the raw value; and the other axis's
\* reference tag never negates: a longitude read under a latitude 'S' and a
\* latitude read under a longitude 'W' return the raw value unless their own
\* reference tag negates it.
C12_AxesIndependent ==
  (op = "get_coordinate" /\ gw = "ok")
    => /\ (/\ HasKey(file, longitude_keys[1])
           /\ ~HasKey(file, latitude_keys[1])
           /\ ~HasKey(file, latitude_ref_key)
           /\ ~HasKey(file, longitude_ref_key))
          => IF Axis = "latitude" THEN ret = None
             ELSE ret = file[longitude_keys[1]]
       /\ ~HasKey(file, AxisKey) => ret = None
       /\ (/\ HasKey(file, AxisKey)
           /\ file[OtherRefKey] = OtherNegRef
           /\ file[AxisRefKey] # AxisNegRef)
          => ret = file[AxisKey]

\* a longitude read that returns the raw value although the latitude
\* reference is 'S'
C12_Witness ==
  /\ CoordinateRead
  /\ Axis = "longitude"
  /\ file[latitude_ref_key] = Str("S")
  /\ file[longitude_ref_key] # Str("W")
  /\ file[longitude_keys[1]].n > 0
  /\ ret = file[longitude_keys[1]]

\* C13: set_location(lat, lon) on a valid record sends one set_tags request
\* whose tags are the first latitude key with lat and the first longitude key
\* with lon as given, the latitude reference 'S' exactly when lat < 0, the
\* longitude reference 'W' exactly when lon < 0, and no other key.
C13_LocationTags ==
  (valid /\ op = "set_location")
    => /\ Count(events, "set_tags") = 1
       /\ tags["EXIF:GPSLatitude"] = args[1]
       /\ tags["EXIF:GPSLongitude"] = args[2]
       /\ HasKey(tags, "EXIF:GPSLatitudeRef") <=> args[1].n < 0
       /\ HasKey(tags, "EXIF:GPSLatitudeRef") => tags["EXIF:GPSLatitudeRef"] = Str("S")
       /\ HasKey(tags, "EXIF:GPSLongitudeRef") <=> args[2].n < 0
       /\ HasKey(tags, "EXIF:GPSLongitudeRef") => tags["EXIF:GPSLongitudeRef"] = Str("W")
       /\ \A k \in Keys :
            HasKey(tags, k)
              => k \in {"EXIF:GPSLatitude", "EXIF:GPSLongitude",
                        "EXIF:GPSLatitudeRef", "EXIF:GPSLongitudeRef"}

\* a set_location south of the equator and on the prime meridian: 'S' and no 'W'
C13_Witness ==
  /\ valid
  /\ op = "set_location"
  /\ args = <<Num(0 - 1), Num(0)>>
  /\ tags["EXIF:GPSLatitudeRef"] = Str("S")
  /\ ~HasKey(tags, "EXIF:GPSLongitudeRef")

\* C14: set_date_taken with an absent time returns False and set_title with an
\* absent title on a valid record returns None; neither opens a session nor
\* sends a set_tags request.
C14_AbsentArguments ==
  /\ (op = "set_date_taken" /\ args[1] = None)
       => (ret = False /\ events = <<>> /\ open_sessions = 0)
  /\ (op = "set_title" /\ valid /\ args[1] = None)
       => (ret = None /\ events = <<>> /\ open_sessions = 0)

\* a set_date_taken with an absent time on a valid record
C14_Witness ==
  /\ valid
  /\ op = "set_date_taken"
  /\ args[1] = None
  /\ ret = False

\* the datetimes of DateTimes as '%Y:%m:%d %H:%M:%S' writes them
Formatted == <<"2023:05:01 10:30:00", "1999:12:31 23:59:59", "2016:02:29 00:00:07">>

\* C15: set_date_taken with a present time on a valid record sends one
\* set_tags request whose tags are exactly the three date-taken keys, each with
\* the same YYYY:MM:DD HH:MM:SS timestamp of the time given.
C15_DateTakenTags ==
  (valid /\ op = "set_date_taken" /\ args[1] # None)
    => /\ Count(events, "set_tags") = 1
       /\ \A k \in Keys :
            IF k \in {"EXIF:DateTimeOriginal", "EXIF:DateTime", "EXIF:DateTimeDigitized"}
            THEN tags[k] = Str(Formatted[args[1].n])
            ELSE ~HasKey(tags, k)

\* a set_date_taken of 2023-05-01 10:30:00
C15_Witness ==
  /\ valid
  /\ op = "set_date_taken"
  /\ args[1] = DateTime(1)
  /\ tags["EXIF:DateTime"] = Str("2023:05:01 10:30:00")

\* C17: a read accessor sends no set_tags request, and the tags the tool holds
\* for the file are the same after it as before.
C17_ReadsDoNotWrite ==
  [][op' \in ReadOps
       => (file' = file /\ Count(events', "set_tags") = 0 /\ tags' = EmptyDict)]_vars

\* a get_coordinate that resolved a negated coordinate from the file
C17_Witness ==
  /\ op = "get_coordinate"
  /\ gw = "ok"
  /\ ret.t = "num"
  /\ ret.n < 0
  /\ Count(events, "get_metadata") = 1

\* C18: when the executable cannot be located the Gateway read fails before any
\* session is opened: the call sends no request at all.
C18_UnavailableNoSession ==
  gw = "ToolUnavailable"
    => (op \in ReadOps /\ reads = 1 /\ events = <<>> /\ open_sessions = 0)

\* a get_album on a valid record that met ToolUnavailable
C18_Witness ==
  /\ valid
  /\ op = "get_album"
  /\ gw = "ToolUnavailable"

(* ----------- several records, one tool request at a time ---------------- *)

\* The calls of distinct records may overlap: a call that uses the tool is
\* taken one request at a time (open, get_metadata or set_tags, close), and the
\* requests of the records interleave.  Each record has its own source file.

one ==
  <<valid, exiftool_attributes, file, open_sessions, dirty, op, args, ret, exc,
    events, tags, reads, gw, status>>

SessionIds == 1..Cardinality(Records)

\* ExifTool(addedargs=...) at the head of a with block when the sessions in
\* open are running: one ExifTool object for all with blocks, so that a
\* running session is taken over
OpenSession_shared(open) ==
  IF open # {} THEN CHOOSE x \in open : TRUE ELSE 1

\* ExifTool(addedargs=...) at the head of a with block when the sessions in
\* open are running: a new object, hence a new tool process
OpenSession(open) ==
  CHOOSE x \in SessionIds \ open : \A y \in SessionIds \ open : x <= y

\* the files the records start with
RecordFiles ==
  { EmptyDict,
    [k \in Keys |->
       IF k = longitude_keys[1] THEN Num(1)
       ELSE IF k = longitude_ref_key THEN Str("W")
       ELSE IF k = album_key THEN Str(AlbumNames[1])
       ELSE NoKey] }

InitRecords ==
  /\ valid = FALSE
  /\ exiftool_attributes = AttrNone
  /\ file = EmptyDict
  /\ open_sessions = 0
  /\ dirty = FALSE
  /\ op = "init"
  /\ args = <<None, None>>
  /\ ret = None
  /\ exc = NoExc
  /\ events = <<>>
  /\ tags = EmptyDict
  /\ reads = 0
  /\ gw = "none"
  /\ status = NoStatus
  /\ recs \in [Records ->
                 {[valid |-> v, exiftool_attributes |-> AttrNone, file |-> f] :
                    v \in BOOLEAN, f \in RecordFiles}]
  /\ calls = [r \in Records |-> Idle]
  /\ live = {}

selfOf(r) ==
  [valid |-> recs[r].valid, exiftool_attributes |-> recs[r].exiftool_attributes]

ReadToolsOf(r) ==
  {[avail |-> a, meta |-> m, status |-> NoStatus, file |-> recs[r].file] :
     a \in BOOLEAN, m \in {recs[r].file, EmptyDict}}
WriteToolsOf(r) ==
  {[avail |-> TRUE, meta |-> recs[r].file, status |-> st, file |-> recs[r].file] :
     st \in {NoStatus, OkStatus}}

\* record r calls method name, which will end as out: a call that sends no
\* request returns at once
Begin(r, name, arg, out) ==
  /\ calls[r].op = "idle"
  /\ IF out.events = <<>>
     THEN /\ recs' = [recs EXCEPT ![r].exiftool_attributes = out.cache,
                                  ![r].file = out.file]
          /\ UNCHANGED <<calls, live>>
     ELSE /\ calls' = [calls EXCEPT ![r] =
                         [op |-> name, arg |-> arg, pos |-> 0, sess |-> {},
                          out |-> out]]
          /\ UNCHANGED <<recs, live>>
  /\ UNCHANGED one

\* the call of record r sends its next request; after the last one it returns
\* calls[r].out.ret (or raises calls[r].out.exc)
Step(r) ==
  LET c == calls[r]
      e == c.out.events[c.pos + 1]
      s == IF e = "open" THEN {OpenSession(live)}
           ELSE IF e = "close" THEN {}
           ELSE c.sess
      done == c.pos + 1 = Len(c.out.events)
  IN
  /\ c.op # "idle"
  /\ live' = IF e = "open" THEN live \cup s
             ELSE IF e = "close" THEN live \ c.sess
             ELSE live
  /\ recs' = [recs EXCEPT
                ![r].file = IF e = "set_tags" THEN c.out.file ELSE @,
                ![r].exiftool_attributes = IF done THEN c.out.cache ELSE @]
  /\ calls' = [calls EXCEPT ![r] =
                 IF done THEN Idle ELSE [c EXCEPT !.pos = c.pos + 1, !.sess = s]]
  /\ UNCHANGED one

RecGetAlbum ==
  \E r \in Records : \E tool \in ReadToolsOf(r) :
    Begin(r, "get_album", None, get_album(selfOf(r), tool))

RecGetCoordinate ==
  \E r \in Records : \E tool \in ReadToolsOf(r) :
    Begin(r, "get_coordinate", Str("longitude"),
          get_coordinate(selfOf(r), "longitude", tool))

RecResetCache ==
  \E r \in Records :
    Begin(r, "reset_cache", None,
          Outcome(None, NoExc, <<>>, 0, "none", EmptyDict, NoStatus,
                  reset_cache(selfOf(r)), recs[r].file))

RecSetAlbum ==
  \E r \in Records : \E tool \in WriteToolsOf(r), album \in Albums :
    Begin(r, "set_album", album, set_album(selfOf(r), album, tool))

RecStep ==
  \E r \in Records : Step(r)

NextRecords ==
  \/ RecGetAlbum
  \/ RecGetCoordinate
  \/ RecResetCache
  \/ RecSetAlbum
  \/ RecStep

SpecRecords == InitRecords /\ [][NextRecords]_vars

\* every call that has opened a session holds one that is running, no two
\* calls hold the same one, and no session runs that no call holds
SessionsOwn ==
  /\ \A r \in Records : calls[r].sess \subseteq live
  /\ \A r, q \in Records : r # q => calls[r].sess \cap calls[q].sess = {}
  /\ live = UNION {calls[r].sess : r \in Records}
  /\ \A r \in Records :
       LET c == calls[r] IN
       (c.op # "idle" /\ c.pos > 0) => Cardinality(c.sess) = 1

\* the album the tags f hold
AlbumOf(f) == IF HasKey(f, album_key) THEN f[album_key] ELSE None

\* C16: distinct records are independent under any interleaving of their
\* calls.  A step of one record changes neither the cache field, the file nor
\* the call in progress of another; a read that returns answers from the
\* record's own file, whatever the other record did meanwhile; and every call
\* uses a session of its own.
C16_RecordsIndependent ==
  [][/\ SessionsOwn'
     /\ \A r, q \in Records :
          (r # q /\ (recs'[r] # recs[r] \/ calls'[r] # calls[r]))
            => (recs'[q] = recs[q] /\ calls'[q] = calls[q])
     /\ \A r \in Records :
          (calls[r].op # "idle" /\ calls'[r].op = "idle")
            => /\ recs'[r].exiftool_attributes = AttrNone
               /\ (calls[r].op = "get_album" /\ calls[r].out.gw = "ok")
                    => calls[r].out.ret = AlbumOf(recs'[r].file)
               /\ (calls[r].op = "get_coordinate" /\ calls[r].out.gw = "ok")
                    => calls[r].out.ret
                         = coordinate_loop(recs'[r].file, "longitude", 1)
               /\ calls[r].op = "set_album"
                    => AlbumOf(recs'[r].file)
                         = IF calls[r].out.ret = True THEN calls[r].arg
                           ELSE AlbumOf(recs[r].file)]_vars

\* both records are in the middle of a call, each in its own session, one
\* reading and one writing
C16_Witness ==
  /\ calls["r1"].op = "get_album"
  /\ calls["r2"].op = "set_album"
  /\ calls["r1"].sess # {}
  /\ calls["r2"].sess # {}
  /\ calls["r1"].sess \cap calls["r2"].sess = {}

====
